---- MODULE Spec2Model ----
(***************************************************************************)
(* A model of src/src/process_rules.py: the predicate functions, the rule  *)
(* evaluator, the action functions with their label cache and the          *)
(* processing loop over the stored emails.                                  *)
(*                                                                          *)
(* Text is a sequence of one-character strings, so that lower(), upper(),   *)
(* the substring test, startswith() and split() are computed.  A Python     *)
(* value is a tagged record: None, a str, an int or a datetime.  A datetime *)
(* is a number of clock ticks; TicksPerDay ticks make one day.              *)
(***************************************************************************)
EXTENDS Integers, Sequences, FiniteSets, TLC

VARIABLES
    store,        \* the emails table: id -> row (Email columns)
    clock,        \* the wall clock read by datetime.now()
    provLabels,   \* the provider's labels: the set of [name, id]
    msgLabels,    \* the provider's label ids on each message
    pc,           \* where process_rules stands: idle, loop, dispatch, mark
    cfg,          \* the rule set loaded by this run
    emails,       \* the rows selected by this run's query, in query order
    idx,          \* the position of the loop in emails
    aidx,         \* the number of actions already applied to emails[idx]
    label_cache,  \* this run's label cache: the set of [name, id]
    results,      \* the results list of the last evaluation (line 222)
    nows,         \* the clock readings taken by that evaluation, one per rule
    calls,        \* the provider calls this run has issued, in order
    err,          \* the exception that ended the last run, or NoError
    runs,         \* the number of runs started
    pure,         \* the last application of a pure function (SpecPure)
    warned,       \* the warnings this run has printed, in order
    other         \* the local state of a second, suspended process_rules
                  \* process (SpecConcurrent)

vars == <<store, clock, provLabels, msgLabels, pc, cfg, emails, idx, aidx,
          label_cache, results, nows, calls, err, runs, pure, warned, other>>

-----------------------------------------------------------------------------
(* Bounds of the model *)

\* the granularity of the clock: ticks per day
TicksPerDay == 2
\* the number of rows of the emails table
MaxRecords == 2
\* the number of process_rules runs
MaxRuns == 2
\* the number of ticks the clock may advance during the runs
MaxTicks == 1
\* the largest count of a time rule drawn for the pure functions
MaxCount == 2
\* the longest condition list drawn for the match decision
MaxRules == 2
\* the longest text drawn for the string predicates
MaxLen == 2

\* months are 30 days (lines 89 and 96)
DaysPerMonth == 30

-----------------------------------------------------------------------------
(* Python values *)

NoneV == [t |-> "none"]
Str(s) == [t |-> "str", s |-> s]
IntV(n) == [t |-> "int", n |-> n]
Time(n) == [t |-> "time", n |-> n]
BoolV(b) == [t |-> "bool", b |-> b]
\* an exception of the given type; arg is the token its message names
Raise(type, arg) == [t |-> "raise", type |-> type, arg |-> arg]

IsRaise(v) == v.t = "raise"

UpperLetters == <<"A","B","C","D","E","F","G","H","I","J","K","L","M",
                  "N","O","P","Q","R","S","T","U","V","W","X","Y","Z">>
LowerLetters == <<"a","b","c","d","e","f","g","h","i","j","k","l","m",
                  "n","o","p","q","r","s","t","u","v","w","x","y","z">>

\* str.lower() and str.upper() on one character
LowerTable ==
    [c \in {UpperLetters[i] : i \in 1..Len(UpperLetters)} |->
        LowerLetters[CHOOSE i \in 1..Len(UpperLetters) : UpperLetters[i] = c]]

UpperTable ==
    [c \in {LowerLetters[i] : i \in 1..Len(LowerLetters)} |->
        UpperLetters[CHOOSE i \in 1..Len(LowerLetters) : LowerLetters[i] = c]]

LowerChar(c) == IF c \in DOMAIN LowerTable THEN LowerTable[c] ELSE c

UpperChar(c) == IF c \in DOMAIN UpperTable THEN UpperTable[c] ELSE c

Lower(s) == [i \in 1..Len(s) |-> LowerChar(s[i])]
Upper(s) == [i \in 1..Len(s) |-> UpperChar(s[i])]

\* a test that looks at the start of b only
IsPrefix(a, b) ==
    Len(b) >= Len(a) /\ SubSeq(b, 1, Len(a)) = a

\* Python's `a in b` on two strings
IsSubstr(a, b) ==
    \E i \in 0..(Len(b) - Len(a)) : SubSeq(b, i + 1, i + Len(a)) = a

\* str.startswith
StartsWith(s, prefix) ==
    Len(s) >= Len(prefix) /\ SubSeq(s, 1, Len(prefix)) = prefix

\* the text after the first occurrence of sep: s.split(sep, 1)[1]
AfterFirst(s, sep) ==
    LET i == CHOOSE k \in 1..Len(s) :
                 s[k] = sep /\ \A j \in 1..(k - 1) : s[j] # sep
    IN SubSeq(s, i + 1, Len(s))

\* Python's `field_val or ''`: None and '' are falsy, other text is itself.
\* A datetime is truthy and is returned as it is.
OrEmpty(v) == IF v.t = "none" THEN Str(<<>>) ELSE v

-----------------------------------------------------------------------------
(* 3) Predicate functions (lines 74-98).  rule_val of a string predicate   *)
(* is a str, rule_val of a date predicate is an int or a str of digits     *)
(* already read as an int; a field value is None, a str or a datetime.     *)

predicate_contains(field_val, rule_val) ==
    LET f == OrEmpty(field_val) IN
    IF f.t # "str" THEN Raise("AttributeError", <<>>)
    ELSE BoolV(IsSubstr(Lower(rule_val.s), Lower(f.s)))

predicate_not_contains(field_val, rule_val) ==
    LET f == OrEmpty(field_val) IN
    IF f.t # "str" THEN Raise("AttributeError", <<>>)
    ELSE BoolV(~IsSubstr(Lower(rule_val.s), Lower(f.s)))

predicate_equals(field_val, rule_val) ==
    LET f == OrEmpty(field_val) IN
    IF f.t # "str" THEN Raise("AttributeError", <<>>)
    ELSE BoolV(Lower(f.s) = Lower(rule_val.s))

predicate_not_equals(field_val, rule_val) ==
    LET f == OrEmpty(field_val) IN
    IF f.t # "str" THEN Raise("AttributeError", <<>>)
    ELSE BoolV(Lower(f.s) # Lower(rule_val.s))

\* a month taken as 31 days
DaysOfLongMonth(rule_val, unit) ==
    rule_val.n * (IF unit = <<"m","o","n","t","h","s">> THEN DaysPerMonth + 1 ELSE 1)

\* days = int(rule_val) * (30 if unit == 'months' else 1)
DaysOf(rule_val, unit) ==
    rule_val.n * (IF unit = <<"m","o","n","t","h","s">> THEN DaysPerMonth ELSE 1)

\* now - timedelta(days=days)
Cutoff(now, days) == now - days * TicksPerDay

\* `now` is a datetime or None; wall is what datetime.now() returns if read
NowOf(now, wall) == IF now.t = "none" THEN wall ELSE now.n

\* dt > cutoff: a TypeError unless dt is a datetime
predicate_less_than_date(dt, rule_val, unit, now, wall) ==
    LET cutoff == Cutoff(NowOf(now, wall), DaysOf(rule_val, unit)) IN
    IF dt.t # "time" THEN Raise("TypeError", <<>>)
    ELSE BoolV(dt.n > cutoff)

predicate_greater_than_date(dt, rule_val, unit, now, wall) ==
    LET cutoff == Cutoff(NowOf(now, wall), DaysOf(rule_val, unit)) IN
    IF dt.t # "time" THEN Raise("TypeError", <<>>)
    ELSE BoolV(dt.n < cutoff)

\* Map textual predicates to functions (lines 101-108): the function's name,
\* or "none" for a text that is no key of PREDICATE_FN
PREDICATE_FN(pred) ==
    CASE pred = <<"c","o","n","t","a","i","n","s">> -> "predicate_contains"
      [] pred = <<"d","o","e","s"," ","n","o","t"," ","c","o","n","t","a","i","n">>
              -> "predicate_not_contains"
      [] pred = <<"e","q","u","a","l","s">> -> "predicate_equals"
      [] pred = <<"d","o","e","s"," ","n","o","t"," ","e","q","u","a","l">>
              -> "predicate_not_equals"
      [] pred = <<"l","e","s","s"," ","t","h","a","n">> -> "predicate_less_than_date"
      [] pred = <<"g","r","e","a","t","e","r"," ","t","h","a","n">>
              -> "predicate_greater_than_date"
      [] OTHER -> "none"

DateFns == {"predicate_less_than_date", "predicate_greater_than_date"}

-----------------------------------------------------------------------------
(* 5) Rule evaluation (lines 162-198) *)

\* a selector that reads an unknown field as an absent value
TargetOfLenient(email, field) ==
    CASE field = <<"f","r","o","m">> -> email.from_address
      [] field = <<"t","o">> -> email.to_address
      [] field = <<"s","u","b","j","e","c","t">> -> email.subject
      [] field \in {<<"m","e","s","s","a","g","e">>, <<"s","n","i","p","p","e","t">>}
              -> email.snippet
      [] field \in {<<"d","a","t","e">>, <<"r","e","c","e","i","v","e","d">>,
                    <<"r","e","c","e","i","v","e","d","_","a","t">>}
              -> email.received_at
      [] OTHER -> NoneV

\* the selected attribute of the row (lines 177-188); "unsupported" when no
\* branch of the if/elif chain takes the field
TargetOf(email, field) ==
    CASE field = <<"f","r","o","m">> -> email.from_address
      [] field = <<"t","o">> -> email.to_address
      [] field = <<"s","u","b","j","e","c","t">> -> email.subject
      [] field \in {<<"m","e","s","s","a","g","e">>, <<"s","n","i","p","p","e","t">>}
              -> email.snippet
      [] field \in {<<"d","a","t","e">>, <<"r","e","c","e","i","v","e","d">>,
                    <<"r","e","c","e","i","v","e","d","_","a","t">>}
              -> email.received_at
      [] OTHER -> [t |-> "unsupported"]

\* rule.get('unit', 'days')
UnitOf(rule) ==
    IF rule.unit.t = "none" THEN <<"d","a","y","s">> ELSE rule.unit.s

\* the call fn(target, val) of line 198.  Line 195 sends both date
\* predicates to line 196, so fn is one of the four string predicates here.
CallText(fn, target, val) ==
    CASE fn = "predicate_contains" -> predicate_contains(target, val)
      [] fn = "predicate_not_contains" -> predicate_not_contains(target, val)
      [] fn = "predicate_equals" -> predicate_equals(target, val)
      [] fn = "predicate_not_equals" -> predicate_not_equals(target, val)

\* the call fn(target, val, unit) of line 196: now is not passed, so a date
\* predicate reads the wall clock; a string predicate takes two arguments
\* only and the call is a TypeError
CallDate(fn, target, val, unit, wall) ==
    CASE fn = "predicate_less_than_date"
              -> predicate_less_than_date(target, val, unit, NoneV, wall)
      [] fn = "predicate_greater_than_date"
              -> predicate_greater_than_date(target, val, unit, NoneV, wall)
      [] OTHER -> Raise("TypeError", <<>>)

\* wall is the value datetime.now() has while this call runs
evaluate_rule(email, rule, wall) ==
    LET field == Lower(rule.field)
        pred == Lower(rule.predicate)
        val == rule.value
        unit == UnitOf(rule)
        target == TargetOf(email, field)
        fn == PREDICATE_FN(pred)
    IN  IF target.t = "unsupported" THEN Raise("ValueError", field)
        ELSE IF fn = "none" THEN Raise("ValueError", pred)
        ELSE IF IsSubstr(<<"d","a","t","e">>, field)
                \/ pred \in {<<"l","e","s","s"," ","t","h","a","n">>,
                             <<"g","r","e","a","t","e","r"," ","t","h","a","n">>}
        THEN CallDate(fn, target, val, unit, wall)
        ELSE CallText(fn, target, val)

\* whether evaluate_rule(email, rule) reaches a datetime.now()
ReadsClock(email, rule) ==
    /\ TargetOf(email, Lower(rule.field)).t # "unsupported"
    /\ PREDICATE_FN(Lower(rule.predicate)) \in DateFns

-----------------------------------------------------------------------------
(* 6) The match decision (lines 208, 222-223) *)

\* cfg.get('predicate', 'All').lower()
OverallOf(c) ==
    IF c.predicate.t = "none" THEN Lower(<<"A","l","l">>) ELSE Lower(c.predicate.s)

\* [evaluate_rule(email, r) for r in rules], rule i evaluated while the wall
\* clock reads walls[i]: the list of the values, or the first exception
RECURSIVE EvalFrom(_, _, _, _, _)
EvalFrom(email, rules, walls, i, acc) ==
    IF i > Len(rules) THEN [t |-> "list", l |-> acc]
    ELSE LET r == evaluate_rule(email, rules[i], walls[i]) IN
         IF IsRaise(r) THEN r @@ [at |-> i]
         ELSE EvalFrom(email, rules, walls, i + 1, Append(acc, r.b))

EvalAll(email, rules, walls) == EvalFrom(email, rules, walls, 1, <<>>)

\* Python's all() and any() over a list of booleans
RECURSIVE py_all(_)
py_all(l) == IF l = <<>> THEN TRUE ELSE IF ~Head(l) THEN FALSE ELSE py_all(Tail(l))

\* an any() that looks at the first element only
py_any_first(l) == l # <<>> /\ Head(l)

RECURSIVE py_any(_)
py_any(l) == IF l = <<>> THEN FALSE ELSE IF Head(l) THEN TRUE ELSE py_any(Tail(l))

\* line 223
Match(overall, l) ==
    IF overall = <<"a","l","l">> THEN py_all(l) ELSE py_any(l)

-----------------------------------------------------------------------------
(* The mail provider (the Gmail service object): its labels, the label ids  *)
(* on each message, and the calls made to it.  Any call may raise.          *)

INBOX == <<"I","N","B","O","X">>
UNREAD == <<"U","N","R","E","A","D">>

\* the ids the provider gives to the labels it creates, in this order
LabelIdPool == <<"Label_1", "Label_2", "Label_3", "Label_4">>

\* the system labels every mailbox has
SystemLabels == {[name |-> INBOX, id |-> "INBOX"], [name |-> UNREAD, id |-> "UNREAD"]}

Names(labels) == {l.name : l \in labels}

\* the id labels().create() returns: the first one no label of the mailbox has
NewLabelId(plabels) ==
    LabelIdPool[CHOOSE i \in 1..Len(LabelIdPool) :
        /\ LabelIdPool[i] \notin {l.id : l \in plabels}
        /\ \A j \in 1..(i - 1) : LabelIdPool[j] \in {l.id : l \in plabels}]

\* one call to the provider, issued for action number act of message msg:
\* op is modify, list or create; ok is FALSE when the call raised
Call(op, msg, act, name, add, remove, ok) ==
    [op |-> op, msg |-> msg, act |-> act, name |-> name,
     add |-> add, remove |-> remove, ok |-> ok]

\* messages().modify(): the label ids added, then those removed
Modified(mlabels, msg, add, remove) ==
    [mlabels EXCEPT ![msg] = (@ \cup add) \ remove]

\* what an action function leaves behind: the calls it issued, the cache, the
\* provider's labels and message labels after it, and whether it raised
Outcome(cs, cache, plabels, mlabels, raised) ==
    [calls |-> cs, cache |-> cache, plabels |-> plabels, mlabels |-> mlabels,
     raised |-> raised]

-----------------------------------------------------------------------------
(* 4) Action functions (lines 113-157).  failing names the provider call    *)
(* that raises when it is reached: "none", "modify", "list" or "create".    *)

\* one modify call and its effect
ModifyOnly(msg, act, add, remove, cache, plabels, mlabels, failing) ==
    IF failing = "modify"
    THEN Outcome(<<Call("modify", msg, act, <<>>, add, remove, FALSE)>>,
                 cache, plabels, mlabels, TRUE)
    ELSE Outcome(<<Call("modify", msg, act, <<>>, add, remove, TRUE)>>,
                 cache, plabels, Modified(mlabels, msg, add, remove), FALSE)

mark_as_read(msg, act, cache, plabels, mlabels, failing) ==
    ModifyOnly(msg, act, {}, {"UNREAD"}, cache, plabels, mlabels, failing)

mark_as_unread(msg, act, cache, plabels, mlabels, failing) ==
    ModifyOnly(msg, act, {"UNREAD"}, {}, cache, plabels, mlabels, failing)

\* line 133
IsInbox(label_name) == Upper(label_name) = INBOX

\* a lookup that never trusts the cache
CacheMissAlways(label_name, cache) == TRUE

\* line 141
CacheMiss(label_name, cache) == label_name \notin Names(cache)

\* label_cache.update({l['name']: l['id'] for l in labels})
CacheUpdate(cache, labels) ==
    {e \in cache : e.name \notin Names(labels)} \cup labels

\* label_cache.get(label_name): the id, or "" for None
CacheGet(cache, label_name) ==
    IF label_name \in Names(cache)
    THEN (CHOOSE e \in cache : e.name = label_name).id
    ELSE ""

move_to_label(msg, act, label_name, cache, plabels, mlabels, failing) ==
    IF IsInbox(label_name)
    THEN ModifyOnly(msg, act, {"INBOX"}, {}, cache, plabels, mlabels, failing)
    ELSE
    LET miss == CacheMiss(label_name, cache)
        listRaised == miss /\ failing = "list"
        cache1 == IF miss /\ ~listRaised THEN CacheUpdate(cache, plabels) ELSE cache
        found == CacheGet(cache1, label_name)
        needCreate == ~listRaised /\ found = ""
        createRaised == needCreate /\ failing = "create"
        created == needCreate /\ ~createRaised
        newId == NewLabelId(plabels)
        label_id == IF created THEN newId ELSE found
        plabels1 == IF created
                    THEN plabels \cup {[name |-> label_name, id |-> newId]}
                    ELSE plabels
        cache2 == IF created
                  THEN CacheUpdate(cache1, {[name |-> label_name, id |-> newId]})
                  ELSE cache1
        reached == ~listRaised /\ ~createRaised
        modifyRaised == reached /\ failing = "modify"
        listCall == IF miss
                    THEN <<Call("list", msg, act, <<>>, {}, {}, ~listRaised)>>
                    ELSE <<>>
        createCall == IF needCreate
                      THEN <<Call("create", msg, act, label_name, {}, {}, ~createRaised)>>
                      ELSE <<>>
        modifyCall == IF reached
                      THEN <<Call("modify", msg, act, <<>>, {label_id}, {"INBOX"},
                                  ~modifyRaised)>>
                      ELSE <<>>
    IN  Outcome(listCall \o createCall \o modifyCall, cache2, plabels1,
                IF reached /\ ~modifyRaised
                THEN Modified(mlabels, msg, {label_id}, {"INBOX"})
                ELSE mlabels,
                listRaised \/ createRaised \/ modifyRaised)

MARK_AS_READ == <<"m","a","r","k","_","a","s","_","r","e","a","d">>
MARK_AS_UNREAD == <<"m","a","r","k","_","a","s","_","u","n","r","e","a","d">>
MOVE_TO == <<"m","o","v","e","_","t","o",":">>

\* the branch of lines 230-238 that takes the action
ActionKind(action) ==
    CASE action = MARK_AS_READ -> "mark_as_read"
      [] action = MARK_AS_UNREAD -> "mark_as_unread"
      [] action # MARK_AS_READ /\ action # MARK_AS_UNREAD /\ StartsWith(action, MOVE_TO)
              -> "move_to"
      [] OTHER -> "unsupported"

\* _, label = action.split(':', 1)
LabelOf(action) == AfterFirst(action, ":")

\* a loop whose else branch raises for an action it does not know
ApplyOneStrict(action, msg, act, cache, plabels, mlabels, failing) ==
    CASE ActionKind(action) = "mark_as_read"
              -> mark_as_read(msg, act, cache, plabels, mlabels, failing)
      [] ActionKind(action) = "mark_as_unread"
              -> mark_as_unread(msg, act, cache, plabels, mlabels, failing)
      [] ActionKind(action) = "move_to"
              -> move_to_label(msg, act, LabelOf(action), cache, plabels, mlabels, failing)
      [] OTHER -> Outcome(<<>>, cache, plabels, mlabels, TRUE)

\* one iteration of the loop of lines 229-238
ApplyOne(action, msg, act, cache, plabels, mlabels, failing) ==
    CASE ActionKind(action) = "mark_as_read"
              -> mark_as_read(msg, act, cache, plabels, mlabels, failing)
      [] ActionKind(action) = "mark_as_unread"
              -> mark_as_unread(msg, act, cache, plabels, mlabels, failing)
      [] ActionKind(action) = "move_to"
              -> move_to_label(msg, act, LabelOf(action), cache, plabels, mlabels, failing)
      [] OTHER -> Outcome(<<>>, cache, plabels, mlabels, FALSE)

\* lines 237-238: the warning printed for an action no branch takes
Warning(action, msg, act) ==
    IF ActionKind(action) = "unsupported"
    THEN <<[msg |-> msg, act |-> act, action |-> action]>>
    ELSE <<>>

-----------------------------------------------------------------------------
(* The inputs the model draws: rows of the emails table, rule conditions,  *)
(* rule lists, action lists and the provider's labels.                     *)

\* a row of the emails table (the Email columns, lines 47-56)
Row(id, from, to, subject, snippet, received) ==
    [id |-> id, thread_id |-> id, from_address |-> from, to_address |-> to,
     subject |-> subject, snippet |-> snippet, received_at |-> received,
     processed_at |-> NoneV]

\* a mail from HR received exactly one day before the clock starts, and a
\* row whose nullable columns are all NULL
RowPool(id) ==
    { Row(id, Str(<<"H","R","@","x">>), Str(<<"m","e">>), Str(<<"J","o","b">>),
          Str(<<"H","i">>), Time(0 - TicksPerDay)),
      Row(id, NoneV, NoneV, NoneV, NoneV, NoneV) }

Cond(field, predicate, value, unit) ==
    [field |-> field, predicate |-> predicate, value |-> value, unit |-> unit]

cFrom == Cond(<<"F","r","o","m">>, <<"C","o","n","t","a","i","n","s">>,
              Str(<<"h","r">>), NoneV)
cLess == Cond(<<"R","e","c","e","i","v","e","d">>, <<"l","e","s","s"," ","t","h","a","n">>,
              IntV(1), NoneV)
cGreater == Cond(<<"r","e","c","e","i","v","e","d","_","a","t">>,
                 <<"G","r","e","a","t","e","r"," ","T","h","a","n">>,
                 IntV(1), Str(<<"d","a","y","s">>))
cBogus == Cond(<<"B","o","g","u","s">>, <<"c","o","n","t","a","i","n","s">>,
               Str(<<"x">>), NoneV)
cInvalid == Cond(<<"F","r","o","m">>, <<"i","n","v","a","l","i","d">>,
                 Str(<<"x">>), NoneV)

LabelJobs == <<"J","o","b","s">>
LabelOld == <<"O","l","d">>

\* json.load of a rules file: cfg['predicate'] (None when absent), cfg['rules']
\* and cfg['actions']
RuleSet(predicate, rules, actions) ==
    [predicate |-> predicate, rules |-> rules, actions |-> actions]

AnyOf == Str(<<"A","N","Y">>)
AllOf == Str(<<"a","l","l">>)

\* the rule sets a run may load
RuleSets ==
    { RuleSet(NoneV, <<>>, <<MARK_AS_READ>>),
      RuleSet(AnyOf, <<>>, <<MARK_AS_READ>>),
      RuleSet(AllOf, <<>>, <<>>),
      RuleSet(AnyOf, <<cFrom>>, <<MARK_AS_UNREAD, MOVE_TO \o <<"i","n","b","o","x">>>>),
      RuleSet(AnyOf, <<cLess, cGreater>>, <<MOVE_TO \o LabelJobs, MOVE_TO \o LabelOld>>),
      RuleSet(NoneV, <<cFrom>>, <<<<"a","r","c","h","i","v","e">>, MOVE_TO \o LabelJobs>>),
      RuleSet(AnyOf, <<cFrom, cBogus>>, <<MARK_AS_READ>>),
      RuleSet(AllOf, <<cInvalid, cFrom>>, <<MARK_AS_READ>>),
      RuleSet(AnyOf, <<cLess, cBogus>>, <<MARK_AS_READ>>) }

\* the mailbox has the system labels, and perhaps the label Old already
ProviderLabelSets ==
    { SystemLabels, SystemLabels \cup {[name |-> LabelOld, id |-> LabelIdPool[1]]} }

-----------------------------------------------------------------------------
(* 6) Main processing flow (lines 203-247) *)

NoError == [t |-> "none"]
NoPure == [op |-> "none"]

\* the local state of a process_rules process that has not started
NotStarted ==
    [pc |-> "idle", cfg |-> [predicate |-> NoneV, rules |-> <<>>, actions |-> <<>>],
     emails |-> <<>>, idx |-> 1, aidx |-> 0, label_cache |-> {}, results |-> <<>>,
     nows |-> <<>>, calls |-> <<>>, err |-> NoError, warned |-> <<>>]

\* a query without the processed_at filter
UnprocessedAll(s) == DOMAIN s

\* line 217: the rows with processed_at IS NULL
Unprocessed(s) == {i \in DOMAIN s : s[i].processed_at = NoneV}

\* the orders in which the query may return the rows of S
Orders(S) ==
    LET n == Cardinality(S) IN
    {o \in [1..n -> S] : \A i, j \in 1..n : i # j => o[i] # o[j]}

\* a loop that dispatches whether or not the row matched
SkipNever(match) == FALSE

\* line 225: `if not match: continue`
Skip(match) == ~match

\* where the loop stands after the row at position i: the next row, or the
\* end of the run
NextPc(i) == IF i > Len(emails) THEN "idle" ELSE "loop"

\* a loop that catches the exception and goes on with the next row
AfterRaiseContinue(i) == [pc |-> NextPc(i + 1), idx |-> i + 1]

\* a loop that marks the row processed although its body raised
AfterRaiseMark(i) == [pc |-> "mark", idx |-> i]

\* an exception in the loop body is not caught: it ends process_rules
AfterRaise(i) == [pc |-> "idle", idx |-> i]

\* a loop that walks the action list from its end
ActionAtReversed(actions, k) == actions[Len(actions) - k]

\* line 229: the action taken after k actions were applied
ActionAt(actions, k) == actions[k + 1]

\* the clock readings an evaluation of `rules` may take, from reading c on:
\* the clock never runs backwards and stays within the model's ticks
WallSeqs(c, email, rules) ==
    {w \in [1..Len(rules) -> c..MaxTicks] :
        \A i \in 1..Len(rules) :
            LET prev == IF i = 1 THEN c ELSE w[i - 1] IN
            /\ w[i] >= prev
            /\ ~ReadsClock(email, rules[i]) => w[i] = prev}

Init ==
    /\ \E n \in 0..MaxRecords :
           store \in {s \in [1..n -> UNION {RowPool(i) : i \in 1..n}] :
                          \A i \in 1..n : s[i].id = i}
    /\ clock = 0
    /\ provLabels \in ProviderLabelSets
    /\ msgLabels = [i \in DOMAIN store |-> {"INBOX", "UNREAD"}]
    /\ pc = "idle"
    /\ cfg = [predicate |-> NoneV, rules |-> <<>>, actions |-> <<>>]
    /\ emails = <<>>
    /\ idx = 1
    /\ aidx = 0
    /\ label_cache = {}
    /\ results = <<>>
    /\ nows = <<>>
    /\ calls = <<>>
    /\ err = NoError
    /\ runs = 0
    /\ pure = NoPure
    /\ warned = <<>>
    /\ other = NotStarted

\* lines 205-218: load the rule set, create the cache, query the rows
StartRun ==
    /\ pc = "idle"
    /\ runs < MaxRuns
    /\ \E c \in RuleSets, o \in Orders(Unprocessed(store)) :
           /\ cfg' = c
           /\ emails' = o
           /\ pc' = IF Len(o) = 0 THEN "idle" ELSE "loop"
    /\ idx' = 1
    /\ aidx' = 0
    /\ label_cache' = {}
    /\ results' = <<>>
    /\ nows' = <<>>
    /\ calls' = <<>>
    /\ err' = NoError
    /\ runs' = runs + 1
    /\ warned' = <<>>
    /\ UNCHANGED <<store, clock, provLabels, msgLabels, pure, other>>

\* lines 222-226: evaluate all conditions on the row, decide the match
Evaluate ==
    /\ pc = "loop"
    /\ \E email \in {store[emails[idx]]} :
       \E w \in WallSeqs(clock, email, cfg.rules) :
       \E r \in {EvalAll(email, cfg.rules, w)} :
       \E k \in {IF IsRaise(r) THEN r.at ELSE Len(cfg.rules)} :
       \E read \in {{i \in 1..k : ReadsClock(email, cfg.rules[i])}} :
           /\ nows' = [i \in 1..k |-> IF i \in read THEN Time(w[i]) ELSE NoneV]
           /\ clock' = IF read = {} THEN clock
                       ELSE w[CHOOSE i \in read : \A j \in read : j <= i]
           /\ IF IsRaise(r)
              THEN /\ err' = r
                   /\ pc' = AfterRaise(idx).pc
                   /\ idx' = AfterRaise(idx).idx
                   /\ UNCHANGED <<results, aidx>>
              ELSE /\ results' = r.l
                   /\ err' = err
                   /\ aidx' = 0
                   /\ IF Skip(Match(OverallOf(cfg), r.l))
                      THEN /\ idx' = idx + 1
                           /\ pc' = NextPc(idx + 1)
                      ELSE /\ idx' = idx
                           /\ pc' = IF Len(cfg.actions) = 0 THEN "mark"
                                    ELSE "dispatch"
    /\ UNCHANGED <<store, provLabels, msgLabels, cfg, emails, label_cache,
                   calls, runs, pure, warned, other>>

\* lines 229-238: apply the next action of the list to the matched row
Dispatch ==
    /\ pc = "dispatch"
    /\ \E failing \in {"none", "modify", "list", "create"} :
       \E out \in {ApplyOne(ActionAt(cfg.actions, aidx), emails[idx], aidx + 1,
                            label_cache, provLabels, msgLabels, failing)} :
           /\ calls' = calls \o out.calls
           /\ warned' = warned \o Warning(ActionAt(cfg.actions, aidx), emails[idx],
                                          aidx + 1)
           /\ label_cache' = out.cache
           /\ provLabels' = out.plabels
           /\ msgLabels' = out.mlabels
           /\ IF out.raised
              THEN /\ err' = Raise("HttpError", <<>>)
                   /\ pc' = AfterRaise(idx).pc
                   /\ idx' = AfterRaise(idx).idx
                   /\ aidx' = aidx
              ELSE /\ err' = err
                   /\ aidx' = aidx + 1
                   /\ idx' = idx
                   /\ pc' = IF aidx + 1 = Len(cfg.actions) THEN "mark"
                            ELSE "dispatch"
    /\ UNCHANGED <<store, clock, cfg, emails, results, nows, runs, pure, other>>

\* lines 241-247: write processed_at = datetime.now() and commit
MarkProcessed ==
    /\ pc = "mark"
    /\ \E w \in clock..MaxTicks :
           /\ store' = [store EXCEPT ![emails[idx]].processed_at = Time(w)]
           /\ clock' = w
    /\ idx' = idx + 1
    /\ pc' = NextPc(idx + 1)
    /\ UNCHANGED <<provLabels, msgLabels, cfg, emails, aidx, label_cache,
                   results, nows, calls, err, runs, pure, warned, other>>

Next == StartRun \/ Evaluate \/ Dispatch \/ MarkProcessed

Spec == Init /\ [][Next]_vars

-----------------------------------------------------------------------------
(* Two process_rules processes on the same emails table and mailbox.  Each  *)
(* has its own rule set, row list, loop position and label cache (the       *)
(* locals of process_rules); the table, the provider and the clock are      *)
(* shared.  The variables of the loop hold the locals of the process that   *)
(* takes the next step, `other` those of the process that waits.            *)

Locals ==
    [pc |-> pc, cfg |-> cfg, emails |-> emails, idx |-> idx, aidx |-> aidx,
     label_cache |-> label_cache, results |-> results, nows |-> nows,
     calls |-> calls, err |-> err, warned |-> warned]

\* the scheduler lets the other process take the next steps: nothing in
\* lines 203-247 takes a lock or claims a row
Switch ==
    /\ other # Locals
    /\ other' = Locals
    /\ pc' = other.pc
    /\ cfg' = other.cfg
    /\ emails' = other.emails
    /\ idx' = other.idx
    /\ aidx' = other.aidx
    /\ label_cache' = other.label_cache
    /\ results' = other.results
    /\ nows' = other.nows
    /\ calls' = other.calls
    /\ err' = other.err
    /\ warned' = other.warned
    /\ UNCHANGED <<store, clock, provLabels, msgLabels, runs, pure>>

NextConcurrent == StartRun \/ Evaluate \/ Dispatch \/ MarkProcessed \/ Switch

SpecConcurrent == Init /\ [][NextConcurrent]_vars

-----------------------------------------------------------------------------
(* Properties of the processing loop *)

Range(f) == {f[i] : i \in DOMAIN f}

IsProcessed(s, r) == s[r].processed_at # NoneV

\* the provider calls the step has issued
NewCalls ==
    IF runs' = runs THEN SubSeq(calls', Len(calls) + 1, Len(calls')) ELSE calls'

\* this run's calls for message r, in the order they were issued
CallsOf(r) == SelectSeq(calls, LAMBDA c : c.msg = r)

\* the match decision stated on the results list
Matched == IF OverallOf(cfg) = <<"a","l","l">>
           THEN \A i \in 1..Len(results) : results[i]
           ELSE \E i \in 1..Len(results) : results[i]

\* the action tokens the dispatcher recognizes
Recognized(action) ==
    action = MARK_AS_READ \/ action = MARK_AS_UNREAD \/ StartsWith(action, MOVE_TO)

\* C1: across runs over the same store, a record whose processed_at is
\* non-null keeps it, is not selected by a later run's query, and gets no
\* further provider call, whatever rule set the later run loads.
C1_ProcessedAtMostOnce ==
    [][\A r \in DOMAIN store :
          IsProcessed(store, r) =>
              /\ store'[r].processed_at = store[r].processed_at
              /\ runs' # runs => r \notin Range(emails')
              /\ \A i \in 1..Len(NewCalls) : NewCalls[i].msg # r]_vars

\* a second run, loaded with a rule set that matches every row, is
\* dispatching for a row while a row processed by the first run is left out
C1_Witness ==
    /\ runs = 2
    /\ cfg = RuleSet(NoneV, <<>>, <<MARK_AS_READ>>)
    /\ Len(calls) > 0
    /\ \E r \in DOMAIN store : IsProcessed(store, r) /\ r \notin Range(emails)

\* C2: within a run a record's processed_at goes from null to non-null iff
\* the record matched and every action of the list was dispatched for it
\* without error; otherwise the record keeps processed_at null, and no step
\* changes any other field of any record.
C2_MarkedIffMatchedAndDispatched ==
    [][/\ DOMAIN store' = DOMAIN store
       /\ \A r \in DOMAIN store :
            /\ [store'[r] EXCEPT !.processed_at = NoneV]
                   = [store[r] EXCEPT !.processed_at = NoneV]
            /\ (~IsProcessed(store, r) /\ IsProcessed(store', r)) =>
                   /\ emails[idx] = r
                   /\ Matched
                   /\ err = NoError
                   /\ aidx = Len(cfg.actions)
                   /\ \A k \in 1..Len(cfg.actions) :
                        Recognized(cfg.actions[k]) =>
                            \E i \in 1..Len(calls) :
                                /\ calls[i].msg = r /\ calls[i].act = k
                                /\ calls[i].op = "modify" /\ calls[i].ok
                   /\ \A i \in 1..Len(calls) : calls[i].msg = r => calls[i].ok
       /\ pc = "mark" => IsProcessed(store', emails[idx])
       /\ (pc = "loop" /\ pc' # "dispatch" /\ pc' # "mark") => store' = store
       /\ (pc = "dispatch" /\ err' # NoError) => store' = store]_vars

\* a run has marked one row and then ended on a provider error for the next,
\* which is left unprocessed
C2_Witness ==
    /\ pc = "idle" /\ runs > 0
    /\ err.t = "raise" /\ err.type = "HttpError"
    /\ idx = 2
    /\ IsProcessed(store, emails[1])
    /\ ~IsProcessed(store, emails[2])

\* C3: when evaluation or dispatch raises for a record the run stops there:
\* the record stays unprocessed, the records before it that were dispatched
\* are committed, and no record after it has a provider call or a
\* processed_at.
C3_RaiseStopsRun ==
    err.t = "raise" =>
        /\ pc = "idle"
        /\ idx \in 1..Len(emails)
        /\ ~IsProcessed(store, emails[idx])
        /\ \A j \in 1..(idx - 1) :
              CallsOf(emails[j]) # <<>> => IsProcessed(store, emails[j])
        /\ \A j \in (idx + 1)..Len(emails) :
              /\ ~IsProcessed(store, emails[j])
              /\ CallsOf(emails[j]) = <<>>

\* a dispatch raised for the first of two selected rows after a call for it
\* went through
C3_Witness ==
    /\ err.t = "raise" /\ err.type = "HttpError"
    /\ Len(emails) = 2 /\ idx = 1
    /\ \E i \in 1..Len(calls) : calls[i].ok

\* the label a call was issued for: the label of the move_to action it
\* belongs to, <<>> for any other action
LabelOfCall(c) ==
    IF StartsWith(cfg.actions[c.act], MOVE_TO)
    THEN AfterFirst(cfg.actions[c.act], ":") ELSE <<>>

\* the call belongs to a move_to action for a label other than INBOX
IsCustomMove(c) ==
    StartsWith(cfg.actions[c.act], MOVE_TO) /\ Upper(LabelOfCall(c)) # INBOX

\* the positions of the recognized actions of the list, in list order
RecognizedPositions ==
    SelectSeq([k \in 1..Len(cfg.actions) |-> k],
              LAMBDA k : Recognized(cfg.actions[k]))

\* the modify call is the one the action's kind asks for
ModifyFits(c) ==
    LET a == cfg.actions[c.act] IN
    CASE a = MARK_AS_READ -> c.add = {} /\ c.remove = {"UNREAD"}
      [] a = MARK_AS_UNREAD -> c.add = {"UNREAD"} /\ c.remove = {}
      [] IsCustomMove(c) ->
            /\ c.remove = {"INBOX"}
            /\ \E l \in provLabels : l.name = LabelOfCall(c) /\ c.add = {l.id}
      [] OTHER -> c.add = {"INBOX"} /\ c.remove = {}

\* C4 as stated: for every matched record the provider is called exactly
\* once per action of the list, in list order.
C4_OneCallPerAction ==
    \A r \in Range(emails) :
        IsProcessed(store, r) =>
            /\ Len(CallsOf(r)) = Len(cfg.actions)
            /\ \A k \in 1..Len(cfg.actions) : CallsOf(r)[k].act = k

\* C4 as amended: for every matched record the message-modify calls are one
\* per recognized action, in list order, each the modify its action asks
\* for (a prefix of them when a call raised, all of them once the record is
\* marked); an unrecognized action has no call, and the only other calls are
\* the label-list and label-create calls of a move_to for a label other than
\* INBOX, issued before that action's modify.
C4_OneModifyPerRecognizedAction ==
    \A r \in Range(emails) :
        LET cs == CallsOf(r)
            mods == SelectSeq(cs, LAMBDA c : c.op = "modify")
        IN  /\ Len(mods) <= Len(RecognizedPositions)
            /\ \A i \in 1..Len(mods) :
                  /\ mods[i].act = RecognizedPositions[i]
                  /\ ModifyFits(mods[i])
                  /\ i < Len(mods) => mods[i].ok
            /\ IsProcessed(store, r) =>
                  /\ Len(mods) = Len(RecognizedPositions)
                  /\ \A i \in 1..Len(cs) : cs[i].ok
            /\ \A i \in 1..Len(cs) :
                  /\ cs[i].op # "modify" => IsCustomMove(cs[i])
                  /\ \A j \in 1..(i - 1) :
                        /\ cs[j].act <= cs[i].act
                        /\ cs[j].act = cs[i].act => cs[j].op # "modify"

\* a marked record whose two actions took more than two provider calls
C4_Witness ==
    \E r \in Range(emails) :
        /\ IsProcessed(store, r)
        /\ Len(cfg.actions) = 2
        /\ Len(CallsOf(r)) > 2
        /\ \E i \in 1..Len(calls) : calls[i].op = "create"

\* the calls of a run for INBOX never list or create, and once a call for a
\* label other than INBOX was made, no later move_to_label call of the run
\* for that label lists or creates
NoLookupForInboxOrKnownLabel ==
    \A i \in 1..Len(calls) :
        calls[i].op \in {"list", "create"} =>
            /\ IsCustomMove(calls[i])
            /\ \A j \in 1..(i - 1) :
                  (IsCustomMove(calls[j]) /\ LabelOfCall(calls[j]) = LabelOfCall(calls[i]))
                      => (calls[j].msg = calls[i].msg /\ calls[j].act = calls[i].act)

\* C5 as stated: INBOX never lists or creates; for any other label the first
\* move_to_label call of the run starts with a label-list lookup, and later
\* calls for the same label neither list nor create.
C5_FirstCallAlwaysLists ==
    /\ NoLookupForInboxOrKnownLabel
    /\ \A i \in 1..Len(calls) :
          (/\ IsCustomMove(calls[i])
           /\ \A j \in 1..(i - 1) :
                 IsCustomMove(calls[j]) => LabelOfCall(calls[j]) # LabelOfCall(calls[i]))
              => calls[i].op = "list"

\* the dispatch step applies a move_to action
MovesTo(label) == pc = "dispatch" /\ cfg.actions[aidx + 1] = MOVE_TO \o label

\* C5 as amended: INBOX never lists or creates; a call for another label
\* lists iff the label is not in the cache (so the first such call of a run
\* always lists, but the first call for a label that an earlier lookup of
\* the run already returned does not), creates iff the list went through and
\* the provider has no such label, and leaves the label cached; later calls
\* of the run for the same label neither list nor create.
C5_LookupIffNotCached ==
    /\ []NoLookupForInboxOrKnownLabel
    /\ [][\A label \in {LabelJobs, LabelOld} :
             MovesTo(label) =>
                /\ (\E i \in 1..Len(NewCalls) : NewCalls[i].op = "list")
                       <=> label \notin Names(label_cache)
                /\ (\E i \in 1..Len(NewCalls) : NewCalls[i].op = "create")
                       <=> /\ label \notin Names(label_cache)
                           /\ label \notin Names(provLabels)
                           /\ NewCalls[1].ok
                /\ err' = NoError => label \in Names(label_cache')
                /\ label_cache \subseteq label_cache']_vars

\* the first call of the run for Old made no lookup, the lookup made for
\* Jobs having cached it; or a second row's call for Jobs made no lookup
C5_Witness ==
    \E i \in 1..Len(calls) :
        /\ calls[i].op = "modify" /\ IsCustomMove(calls[i]) /\ calls[i].ok
        /\ \A j \in 1..Len(calls) :
              (calls[j].msg = calls[i].msg /\ calls[j].act = calls[i].act) => j = i
        /\ \E j \in 1..(i - 1) : calls[j].op = "list"

\* the field selectors and predicate kinds of the rule format (lines 164-169
\* and 101-108), in lower case
KnownFields ==
    { <<"f","r","o","m">>, <<"t","o">>, <<"s","u","b","j","e","c","t">>,
      <<"m","e","s","s","a","g","e">>, <<"s","n","i","p","p","e","t">>,
      <<"d","a","t","e">>, <<"r","e","c","e","i","v","e","d">>,
      <<"r","e","c","e","i","v","e","d","_","a","t">> }

KnownPredicates ==
    { <<"c","o","n","t","a","i","n","s">>,
      <<"d","o","e","s"," ","n","o","t"," ","c","o","n","t","a","i","n">>,
      <<"e","q","u","a","l","s">>,
      <<"d","o","e","s"," ","n","o","t"," ","e","q","u","a","l">>,
      <<"l","e","s","s"," ","t","h","a","n">>,
      <<"g","r","e","a","t","e","r"," ","t","h","a","n">> }

\* the token of the condition that is unknown: its field, else its predicate
UnknownToken(rule) ==
    IF Lower(rule.field) \notin KnownFields THEN Lower(rule.field)
    ELSE Lower(rule.predicate)

IsUnknown(rule) ==
    Lower(rule.field) \notin KnownFields \/ Lower(rule.predicate) \notin KnownPredicates

\* the positions of the conditions of the loaded rule set that have an
\* unknown field or predicate
UnknownPositions == {i \in 1..Len(cfg.rules) : IsUnknown(cfg.rules[i])}

\* the run has started and has ended
RunEnded == runs > 0 /\ pc = "idle"

\* C7 as stated: a run whose rule set has an unknown field or predicate, at
\* any position and whatever the store holds, fails with a configuration
\* error naming the token, with no provider call and no processed_at written.
C7_UnknownTokenAlwaysFails ==
    (RunEnded /\ UnknownPositions # {}) =>
        /\ err.t = "raise" /\ err.type = "ValueError"
        /\ \E i \in UnknownPositions : err.arg = UnknownToken(cfg.rules[i])
        /\ calls = <<>>
        /\ \A r \in Range(emails) : ~IsProcessed(store, r)

\* C7 as amended: a run whose rule set has an unknown field or predicate
\* makes no provider call and writes no processed_at.  If its query selects
\* no record it ends without any error.  Otherwise it ends with an exception
\* while evaluating the first selected record: the first condition of the
\* list that raises decides it, which is the ValueError naming the unknown
\* token unless a condition before the unknown one raised (a date predicate
\* on a null received_at raises a TypeError).
C7_UnknownTokenFailsAtFirstRecord ==
    (runs > 0 /\ UnknownPositions # {}) =>
        /\ calls = <<>>
        /\ \A r \in Range(emails) : ~IsProcessed(store, r)
        /\ pc \in {"idle", "loop"}
        /\ idx = 1
        /\ RunEnded =>
              IF Len(emails) = 0 THEN err = NoError
              ELSE /\ err.t = "raise"
                   /\ \A i \in UnknownPositions : err.at <= i
                   /\ IF err.at \in UnknownPositions
                      THEN /\ err.type = "ValueError"
                           /\ err.arg = UnknownToken(cfg.rules[err.at])
                      ELSE err.type = "TypeError"

\* a run over two selected records ended on the unknown field of the second
\* condition, named by the error
C7_Witness ==
    /\ RunEnded
    /\ Len(emails) = 2
    /\ err.t = "raise" /\ err.type = "ValueError"
    /\ err.at = 2
    /\ err.arg = <<"b","o","g","u","s">>

\* C9: the time conditions of one evaluation of a record are all compared
\* against one and the same now: no two of them read different clock values.
C9_SingleNowPerEvaluation ==
    \A i, j \in 1..Len(nows) :
        (nows[i].t = "time" /\ nows[j].t = "time") => nows[i].n = nows[j].n

\* a provider call ended the run
ProviderFailed == err.t = "raise" /\ err.type = "HttpError"

\* the number of actions of the list the run has gone past for the record
\* at position j of emails: all of them once the record is marked, aidx
\* while the record is the one being dispatched (or the one whose dispatch
\* failed), none before the record is reached or when it did not match
Passed(j) ==
    IF IsProcessed(store, emails[j]) THEN Len(cfg.actions)
    ELSE IF j = idx /\ (pc \in {"dispatch", "mark"} \/ ProviderFailed) THEN aidx
    ELSE 0

\* the warnings an action list gives for message r up to its position n
WarningsUpTo(r, n) ==
    LET ks == SelectSeq([k \in 1..n |-> k], LAMBDA k : ~Recognized(cfg.actions[k]))
    IN  [i \in 1..Len(ks) |-> [msg |-> r, act |-> ks[i], action |-> cfg.actions[ks[i]]]]

\* C12: an unrecognized action token is skipped with a warning and is not
\* fatal: it has a warning and no provider call, a run ends on a dispatch
\* error only through a failed provider call of a recognized action, the
\* recognized actions before and after the token are dispatched in list
\* order, and the record is marked processed once the list is through.
C12_UnrecognizedActionSkipped ==
    /\ \A j \in 1..Len(emails) :
          LET r == emails[j]
              cs == CallsOf(r)
          IN  /\ SelectSeq(warned, LAMBDA w : w.msg = r) = WarningsUpTo(r, Passed(j))
              /\ \A i \in 1..Len(cs) :
                    /\ Recognized(cfg.actions[cs[i].act])
                    /\ \A h \in 1..(i - 1) : cs[h].act <= cs[i].act
              /\ \A k \in 1..Passed(j) :
                    Recognized(cfg.actions[k]) =>
                        \E i \in 1..Len(cs) :
                            cs[i].act = k /\ cs[i].op = "modify" /\ cs[i].ok
    /\ ProviderFailed =>
          /\ calls # <<>>
          /\ ~calls[Len(calls)].ok
          /\ calls[Len(calls)].msg = emails[idx]
          /\ calls[Len(calls)].act = aidx + 1
    /\ pc = "dispatch" => aidx < Len(cfg.actions)
    /\ pc = "mark" => aidx = Len(cfg.actions)
    /\ \A i \in 1..Len(warned) :
          \/ IsProcessed(store, warned[i].msg)
          \/ /\ idx <= Len(emails) /\ warned[i].msg = emails[idx]
             /\ pc \in {"dispatch", "mark"} \/ ProviderFailed

\* a record is marked processed after a warning for its first action and a
\* modify call for its second one
C12_Witness ==
    \E r \in Range(emails) :
        /\ IsProcessed(store, r)
        /\ \E i \in 1..Len(warned) :
              /\ warned[i].msg = r /\ warned[i].act = 1
              /\ warned[i].action = <<"a","r","c","h","i","v","e">>
        /\ \E i \in 1..Len(calls) :
              /\ calls[i].msg = r /\ calls[i].act = 2
              /\ calls[i].op = "modify" /\ calls[i].ok
        /\ \A i \in 1..Len(calls) : calls[i].act # 1

\* the modify calls of this run for message r that went through
DoneModifies(r) == SelectSeq(CallsOf(r), LAMBDA c : c.op = "modify" /\ c.ok)

\* the provider still shows what this run's modify calls for r did: a label
\* id is on the message iff the last call that touched it did not remove it
EffectsInPlace(r) ==
    LET mods == DoneModifies(r) IN
    \A i \in 1..Len(mods) :
        \A x \in mods[i].add \cup mods[i].remove :
            (\A h \in (i + 1)..Len(mods) : x \notin mods[h].add \cup mods[h].remove)
                => (x \in msgLabels[r] <=> x \notin mods[i].remove)

\* a step after a failed provider call is the start of the next run, which
\* selects the failed record and leaves the provider and the store as they
\* are; and every dispatch of a record begins with no action applied
ReplayStep ==
    /\ ProviderFailed =>
          /\ runs' # runs
          /\ emails[idx] \in Range(emails')
          /\ aidx' = 0 /\ calls' = <<>>
          /\ msgLabels' = msgLabels /\ provLabels' = provLabels
          /\ store' = store
    /\ (pc = "loop" /\ pc' = "dispatch") => aidx' = 0

\* C13: when the provider call for action N of a record fails, the run ends
\* with the failed call as its last call (no compensating call), what the
\* calls of actions 1..N-1 did stays at the provider and the record's
\* processed_at stays null; the next run selects the record, changes
\* nothing at the provider when it starts, and a run that marks a record
\* has gone through the whole action list for it from action 1, whatever
\* an earlier run did for that record.
C13_FailedRecordIsReplayed ==
    /\ [](/\ ProviderFailed =>
               /\ pc = "idle"
               /\ ~IsProcessed(store, emails[idx])
               /\ \A i \in 1..Len(calls) :
                     IF i = Len(calls)
                     THEN /\ ~calls[i].ok /\ calls[i].msg = emails[idx]
                          /\ calls[i].act = aidx + 1
                     ELSE calls[i].ok
               /\ [i \in 1..Len(DoneModifies(emails[idx])) |->
                      DoneModifies(emails[idx])[i].act]
                    = SelectSeq(RecognizedPositions, LAMBDA k : k <= aidx)
          /\ \A r \in Range(emails) :
               /\ EffectsInPlace(r)
               /\ IsProcessed(store, r) =>
                     [i \in 1..Len(DoneModifies(r)) |-> DoneModifies(r)[i].act]
                         = RecognizedPositions)
    /\ [][ReplayStep]_vars

\* the only record of the store is marked by a second run that dispatched
\* both move_to actions for it without creating a label: the first run
\* created both labels and failed on the modify call of action 2
C13_Witness ==
    /\ runs = 2
    /\ DOMAIN store = {1}
    /\ IsProcessed(store, 1)
    /\ cfg.actions = <<MOVE_TO \o LabelJobs, MOVE_TO \o LabelOld>>
    /\ [name |-> LabelJobs, id |-> LabelIdPool[1]] \in provLabels
    /\ [name |-> LabelOld, id |-> LabelIdPool[2]] \in provLabels
    /\ \A i \in 1..Len(calls) : calls[i].op # "create"
    /\ [i \in 1..Len(DoneModifies(1)) |-> DoneModifies(1)[i].act] = <<1, 2>>

-----------------------------------------------------------------------------
(* The pure functions applied to drawn inputs: the date predicates, the    *)
(* rule evaluator and the match decision.                                   *)

procVars == <<store, clock, provLabels, msgLabels, pc, cfg, emails, idx, aidx,
              label_cache, results, nows, calls, err, runs, warned, other>>

MONTHS == <<"m","o","n","t","h","s">>
DAYS == <<"d","a","y","s">>

\* the day counts the drawn rules stand for, and timestamps on and next to
\* every cutoff they give from the readings 0 and 1
PureDays == {n * m : n \in (0 - 1)..MaxCount, m \in {1, DaysPerMonth}}
PureTimes == {now - d * TicksPerDay + e : now \in 0..1, d \in PureDays, e \in (0 - 1)..1}
PureUnits == {DAYS, MONTHS, <<"w","e","e","k","s">>}

PureTextFields ==
    { <<"F","r","o","m">>, <<"T","o">>, <<"S","u","b","j","e","c","t">>,
      <<"M","e","s","s","a","g","e">>, <<"s","n","i","p","p","e","t">> }
PureTimeFields ==
    { <<"D","a","t","e">>, <<"R","e","c","e","i","v","e","d">>,
      <<"r","e","c","e","i","v","e","d","_","a","t">> }
PureTextPredicates ==
    { <<"C","o","n","t","a","i","n","s">>,
      <<"d","o","e","s"," ","n","o","t"," ","c","o","n","t","a","i","n">>,
      <<"E","q","u","a","l","s">>,
      <<"d","o","e","s"," ","n","o","t"," ","e","q","u","a","l">> }
PureTimePredicates ==
    { <<"L","e","s","s"," ","t","h","a","n">>,
      <<"g","r","e","a","t","e","r"," ","t","h","a","n">> }

\* text conditions on text fields, time conditions on the received time, and
\* the two conditions with an unknown token
PureConds ==
    { Cond(f, p, Str(v), NoneV) :
        f \in PureTextFields, p \in PureTextPredicates, v \in {<<>>, <<"h","r">>} }
    \cup { Cond(f, p, IntV(1), u) :
        f \in PureTimeFields, p \in PureTimePredicates, u \in {NoneV, Str(MONTHS)} }
    \cup { cBogus, cInvalid }

cNotFrom == Cond(<<"f","r","o","m">>,
                 <<"D","o","e","s"," ","n","o","t"," ","c","o","n","t","a","i","n">>,
                 Str(<<"H","R">>), NoneV)

MatchConds == {cFrom, cNotFrom, cLess, cGreater}

MatchRuleLists ==
    UNION {[1..n -> MatchConds] : n \in 0..MaxRules}

PurePolicies == {NoneV, AllOf, AnyOf, Str(<<"A","n","y">>)}

InitPure ==
    /\ store = <<>>
    /\ clock = 0
    /\ provLabels = SystemLabels
    /\ msgLabels = <<>>
    /\ pc = "idle"
    /\ cfg = RuleSet(NoneV, <<>>, <<>>)
    /\ emails = <<>>
    /\ idx = 1
    /\ aidx = 0
    /\ label_cache = {}
    /\ results = <<>>
    /\ nows = <<>>
    /\ calls = <<>>
    /\ err = NoError
    /\ runs = 0
    /\ pure = NoPure
    /\ warned = <<>>
    /\ other = NotStarted

\* predicate_less_than_date and predicate_greater_than_date on one input,
\* with now passed or left to the wall clock
ApplyDatePredicates ==
    /\ pure = NoPure
    /\ \E t \in PureTimes, n \in (0 - 1)..MaxCount, u \in PureUnits,
          now \in {NoneV, Time(0), Time(1)}, wall \in 0..1 :
           pure' = [op |-> "date", dt |-> t, n |-> n, unit |-> u, now |-> now,
                    wall |-> wall,
                    lt |-> predicate_less_than_date(Time(t), IntV(n), u, now, wall),
                    gt |-> predicate_greater_than_date(Time(t), IntV(n), u, now, wall)]
    /\ UNCHANGED procVars

\* evaluate_rule on one row and one condition
ApplyEvaluateRule ==
    /\ pure = NoPure
    /\ \E email \in RowPool(1), rule \in PureConds, wall \in 0..1 :
           pure' = [op |-> "evaluate_rule", email |-> email, rule |-> rule,
                    wall |-> wall, out |-> evaluate_rule(email, rule, wall)]
    /\ UNCHANGED procVars

\* lines 208 and 222-223 on one row and one rule set
ApplyMatch ==
    /\ pure = NoPure
    /\ \E email \in RowPool(1), p \in PurePolicies, rules \in MatchRuleLists :
       \E w \in WallSeqs(0, email, rules) :
       \E r \in {EvalAll(email, rules, w)} :
           pure' = [op |-> "match", email |-> email, predicate |-> p,
                    rules |-> rules, walls |-> w, results |-> r,
                    out |-> IF IsRaise(r) THEN r
                            ELSE BoolV(Match(OverallOf([predicate |-> p]), r.l))]
    /\ UNCHANGED procVars

\* the characters of the texts drawn for the string predicates: a letter in
\* both cases, a letter in one case, a character that has no case
PureChars == {"a", "A", "B", "@"}

PureTexts == UNION {[1..n -> PureChars] : n \in 0..MaxLen}

\* the four string predicates on one field value (None or a str) and one
\* rule value
ApplyStringPredicates ==
    /\ pure = NoPure
    /\ \E a \in {NoneV} \cup {Str(s) : s \in PureTexts}, b \in PureTexts :
           pure' = [op |-> "string", a |-> a, b |-> b,
                    contains |-> predicate_contains(a, Str(b)),
                    not_contains |-> predicate_not_contains(a, Str(b)),
                    equals |-> predicate_equals(a, Str(b)),
                    not_equals |-> predicate_not_equals(a, Str(b))]
    /\ UNCHANGED procVars

NextPure ==
    ApplyDatePredicates \/ ApplyEvaluateRule \/ ApplyMatch \/ ApplyStringPredicates

SpecPure == InitPure /\ [][NextPure]_vars

\* the policy of a drawn rule set, in lower case ('All' when absent)
PolicyOf(p) == IF p.t = "none" THEN <<"a","l","l">> ELSE Lower(p.s)

\* C6: the match decision is true under 'all' iff every condition evaluates
\* true and under 'any' iff at least one does; an empty condition list gives
\* true under 'all' and false under 'any'; the decision is the same for
\* every order of the conditions' results.
C6_MatchDecision ==
    (pure.op = "match" /\ pure.out.t = "bool") =>
        LET n == Len(pure.rules)
            holds(i) == evaluate_rule(pure.email, pure.rules[i], pure.walls[i]).b
            policy == PolicyOf(pure.predicate)
        IN  /\ policy = <<"a","l","l">> => (pure.out.b <=> \A i \in 1..n : holds(i))
            /\ policy = <<"a","n","y">> => (pure.out.b <=> \E i \in 1..n : holds(i))
            /\ n = 0 => (pure.out.b <=> policy = <<"a","l","l">>)
            /\ \A q \in Permutations(1..n) :
                  Match(policy, [i \in 1..n |-> pure.results.l[q[i]]]) = pure.out.b

\* under 'any' a false first condition and a true second one match
C6_Witness ==
    /\ pure.op = "match"
    /\ pure.out = BoolV(TRUE)
    /\ PolicyOf(pure.predicate) = <<"a","n","y">>
    /\ pure.results.l = <<FALSE, TRUE>>

\* the selected field of the row is null and the condition is a supported
\* one: a text predicate on a text field or a date predicate on the
\* received time
NullFieldCase ==
    /\ pure.op = "evaluate_rule"
    /\ ~IsUnknown(pure.rule)
    /\ TargetOf(pure.email, Lower(pure.rule.field)) = NoneV

\* C8: evaluating a supported condition of any predicate kind on a null
\* field value never raises: it returns a boolean, the one the empty string
\* gives for a string predicate.
C8_NullFieldNeverRaises ==
    NullFieldCase =>
        /\ pure.out.t = "bool"
        /\ Lower(pure.rule.predicate) \notin
               {<<"l","e","s","s"," ","t","h","a","n">>,
                <<"g","r","e","a","t","e","r"," ","t","h","a","n">>}
             => pure.out = evaluate_rule(
                    [pure.email EXCEPT !.from_address = Str(<<>>),
                                       !.to_address = Str(<<>>),
                                       !.subject = Str(<<>>),
                                       !.snippet = Str(<<>>)],
                    pure.rule, pure.wall)

\* C10: with cutoff = now - n days, n counting 30 days each for unit
\* 'months', 'less than' is true iff t > cutoff and 'greater than' iff
\* t < cutoff; never both, and both false exactly when t is the cutoff.
C10_DateCutoff ==
    pure.op = "date" =>
        LET now == IF pure.now.t = "none" THEN pure.wall ELSE pure.now.n
            days == IF pure.unit = MONTHS THEN 30 * pure.n ELSE pure.n
            cutoff == now - days * TicksPerDay
        IN  /\ pure.lt = BoolV(pure.dt > cutoff)
            /\ pure.gt = BoolV(pure.dt < cutoff)
            /\ ~(pure.lt.b /\ pure.gt.b)
            /\ (~pure.lt.b /\ ~pure.gt.b) <=> pure.dt = cutoff

\* a timestamp exactly two months of 30 days before now: neither older nor
\* newer
C10_Witness ==
    /\ pure.op = "date"
    /\ pure.unit = MONTHS /\ pure.n = 2
    /\ pure.now = Time(1)
    /\ pure.dt = 1 - 60 * TicksPerDay
    /\ pure.lt = BoolV(FALSE) /\ pure.gt = BoolV(FALSE)

\* two characters that are the same up to letter case
SameLetter(c, d) == c = d \/ {c, d} = {"a", "A"} \/ {c, d} = {"b", "B"}

\* the text of a field value: the empty text for an absent value
TextOf(a) == IF a = NoneV THEN <<>> ELSE a.s

\* b occurs in a, letter case apart
OccursIn(b, a) ==
    \E i \in 0..(Len(a) - Len(b)) : \A k \in 1..Len(b) : SameLetter(a[i + k], b[k])

\* C11: for every field value a (a text, or absent and then taken as the
\* empty text) and rule value b, contains(a,b) is true iff b occurs in a
\* letter case apart, not_contains is its negation, equals is true iff a
\* and b have the same length and the same letters case apart, and exactly
\* one of equals and not_equals holds.
C11_StringPredicates ==
    pure.op = "string" =>
        LET a == TextOf(pure.a)
            b == pure.b
        IN  /\ pure.contains = BoolV(OccursIn(b, a))
            /\ pure.not_contains = BoolV(~pure.contains.b)
            /\ pure.equals = BoolV(Len(a) = Len(b) /\ OccursIn(b, a))
            /\ pure.not_equals.t = "bool"
            /\ pure.equals.b # pure.not_equals.b

\* "@A" contains "a" without being equal to it
C11_Witness ==
    /\ pure.op = "string"
    /\ pure.a = Str(<<"@", "A">>) /\ pure.b = <<"a">>
    /\ pure.contains = BoolV(TRUE) /\ pure.not_contains = BoolV(FALSE)
    /\ pure.equals = BoolV(FALSE) /\ pure.not_equals = BoolV(TRUE)

\* the run with locals L has gone through the whole action list for record
\* r, with at least one provider call
Through(L, r) ==
    /\ \E j \in 1..Len(L.emails) :
          /\ L.emails[j] = r
          /\ j < L.idx \/ (j = L.idx /\ L.pc = "mark")
    /\ \E i \in 1..Len(L.calls) : L.calls[i].msg = r

\* C14: when two runs execute concurrently on the same store, no record
\* has its action list dispatched by both runs.
C14_NoDoubleDispatch ==
    \A r \in DOMAIN store : ~(Through(Locals, r) /\ Through(other, r))

====
